---- MODULE Spec2Model ----
(***************************************************************************)
(* A model of github.com/polastre/gphotos: the OAuth token cache           *)
(* (Credentials.Token), the picker session (NewPickerSession, Poll,        *)
(* listPickerContents) and the transfer to S3 (UploadToS3,                 *)
(* downloadAndStore, SetPhotoJSON).                                        *)
(*                                                                         *)
(* The library is single threaded: one call runs at a time and pc is its   *)
(* position. The remote services (Google's token, picker and media         *)
(* endpoints, S3) and the caller's callbacks and context are the           *)
(* environment: every answer they can give is a nondeterministic choice.   *)
(* A string is a sequence of atoms (short strings), so that Sprintf is     *)
(* concatenation and a suffix or an extension can be looked at.            *)
(***************************************************************************)
EXTENDS Integers, Sequences, FiniteSets, TLC

\* ------------------------------------------------------------ bounds

\* The clock's readings are 0..MaxTime.
MaxTime == 1
\* Status responses reporting "incomplete" that one Poll may receive.
MaxPolls == 2
\* Callbacks handed to one Poll.
MaxCallbacks == 2
\* Listing pages one listPickerContents may receive.
MaxPages == 2
\* Items handed to one UploadToS3.
MaxPhotos == 2

\* ------------------------------------------------------------ values

\* a nil error, a nil string
Nil == "nil"

\* A pointer (or a slice header) is a sequence: empty when nil, else holding
\* what it points to.
NilPtr == <<>>
Ptr(v) == <<v>>
Deref(p) == p[1]

\* error values
ErrPollingCallbackFalse == "callback returned false, so polling was halted"
ErrCanceled == "context canceled"
ErrTransport == "transport error"
ErrUnmarshal == "json unmarshal error"
ErrGooglePhotos == "GooglePhotosError"
ErrGoogleOAuth == "GoogleOAuthError"
ErrAwsSession == "aws session error"
ErrS3Upload == "s3 upload error"

tokenUrl == <<"https://oauth2.googleapis.com/token">>
sessionsUrl == <<"https://photospicker.googleapis.com/v1/sessions">>
mediaItemsUrl == <<"https://photospicker.googleapis.com/v1/mediaItems">>

\* strconv of a non-negative integer, as fmt's %d prints it
DigitChar == <<"0", "1", "2", "3", "4", "5", "6", "7", "8", "9">>

RECURSIVE Digits(_)
Digits(n) ==
    IF n < 10 THEN <<DigitChar[n + 1]>>
    ELSE Digits(n \div 10) \o <<DigitChar[(n % 10) + 1]>>

FormatInt(n) == IF n < 0 THEN <<"-">> \o Digits(-n) ELSE Digits(n)


\* ------------------------------------------------------------ state

VARIABLES
    now,            \* the last reading of time.Now()
    AccessToken,    \* Credentials.AccessToken, the cached *Token
    sesh,           \* the caller's *GooglePhotosPickerSession
    cancelled,      \* ctx.Err() != nil
    store,          \* the S3 bucket: key -> [Body, ContentType]
    op,             \* the call that runs, or ran (Nil: none yet)
    pc,             \* the running call's position ("idle": none runs)
    tokRet,         \* where the running Token() returns to
    tokRes,         \* what the last Token() returned: [token, err]
    callbacks,      \* Poll: how many callbacks were supplied
    cbIdx,          \* Poll: the next callback of the current round
    polls,          \* Poll: status responses received
    photos,         \* listPickerContents' photos / UploadToS3's photos
    nextPageToken,  \* listPickerContents' nextPageToken
    opts,           \* UploadToS3's S3Options
    idx,            \* UploadToS3: the next item of photos
    ret,            \* what the last finished call returned
    log             \* what the running (or last) call did, in order

vars == <<now, AccessToken, sesh, cancelled, store, op, pc, tokRet, tokRes,
          callbacks, cbIdx, polls, photos, nextPageToken, opts, idx, ret, log>>

pollVars == <<cancelled, callbacks, cbIdx, polls>>
listVars == <<photos, nextPageToken>>
uploadVars == <<opts, idx>>

\* ------------------------------------------------------------ log

\* httpRequest(token, method, uri, body), and http.Post with no bearer token
Req(token, method, url, query) ==
    [ev |-> "req", token |-> token, method |-> method, url |-> url,
     query |-> query]

IsReq(e) == e.ev = "req"

Requests(l) == SelectSeq(l, IsReq)

\* ------------------------------------------------------------ Token

TokenNames == {"tokA"}
TokenLifetimes == {-1, 0, 1}

\* What the token endpoint may answer: no answer, a body that is no JSON
\* object, or a JSON object read as a Token.
TokenResponses ==
    {[kind |-> "transport"], [kind |-> "garbage"]}
    \cup [kind : {"json"}, AccessToken : TokenNames \cup {""},
          ExpiresIn : TokenLifetimes]

TokenResp(r) == [ev |-> "token", resp |-> r]

\* The cached token was found expired and dropped.
Dropped(tok) == [ev |-> "expired", token |-> tok]

\* A faulty Expired: a token is dropped when it has a second or less to live.
ExpiredWithMargin(tok, t) == tok.ExpiresAt <= t + 1

\* A faulty Expired: the cached token is never trusted.
ExpiredAlways(tok, t) == TRUE

\* c.AccessToken.ExpiresAt.Before(time.Now())
Expired(tok, t) == tok.ExpiresAt < t

\* token.AccessToken == "" || token.ExpiresIn == 0
InvalidToken(r) == r.AccessToken = "" \/ r.ExpiresIn = 0

\* A faulty ExpiresAt: the duration is taken for the instant.
ExpiresAtDuration(captured, r) == r.ExpiresIn

\* now.Add(time.Duration(token.ExpiresIn) * time.Second)
ExpiresAt(captured, r) == captured + r.ExpiresIn

\* The cache check that opens Token(): an unexpired cached token is returned,
\* an expired one is dropped.
TokenCheck ==
    /\ pc = "Token"
    /\ IF AccessToken = NilPtr
       THEN /\ pc' = "Token_post"
            /\ UNCHANGED <<now, AccessToken, tokRes, log>>
       ELSE \E t \in now..MaxTime :
            /\ now' = t
            /\ IF Expired(Deref(AccessToken), t)
               THEN /\ AccessToken' = NilPtr
                    /\ log' = Append(log, Dropped(Deref(AccessToken)))
                    /\ pc' = "Token_post"
                    /\ UNCHANGED tokRes
               ELSE /\ tokRes' = [token |-> AccessToken, err |-> Nil]
                    /\ pc' = tokRet
                    /\ UNCHANGED <<AccessToken, log>>
    /\ UNCHANGED <<sesh, store, op, tokRet, ret>>
    /\ UNCHANGED <<pollVars, listVars, uploadVars>>

\* The exchange of the refresh token: http.Post, the capture of the time, the
\* parse of the body and the store of the token.
TokenPost ==
    /\ pc = "Token_post"
    /\ pc' = tokRet
    /\ \E r \in TokenResponses :
        /\ log' = log \o <<Req("", "POST", tokenUrl, {}), TokenResp(r)>>
        /\ CASE r.kind = "transport" ->
                   /\ tokRes' = [token |-> NilPtr, err |-> ErrTransport]
                   /\ UNCHANGED <<now, AccessToken>>
             [] r.kind = "garbage" ->
                   /\ \E t \in now..MaxTime : now' = t
                   /\ tokRes' = [token |-> NilPtr, err |-> ErrUnmarshal]
                   /\ UNCHANGED AccessToken
             [] OTHER ->
                   \E t \in now..MaxTime :
                       /\ now' = t
                       /\ IF InvalidToken(r)
                          THEN /\ tokRes' = [token |-> NilPtr, err |-> ErrGoogleOAuth]
                               /\ UNCHANGED AccessToken
                          ELSE LET token == [AccessToken |-> r.AccessToken,
                                             ExpiresIn |-> r.ExpiresIn,
                                             ExpiresAt |-> ExpiresAt(t, r)]
                               IN  /\ AccessToken' = Ptr(token)
                                   /\ tokRes' = [token |-> Ptr(token), err |-> Nil]
    /\ UNCHANGED <<sesh, store, op, tokRet, ret>>
    /\ UNCHANGED <<pollVars, listVars, uploadVars>>

\* A call of Token() by the caller itself, which may call it again and again.
CallToken ==
    /\ pc = "idle" /\ op \in {Nil, "Token"}
    /\ op' = "Token"
    /\ pc' = "Token"
    /\ tokRet' = "Token_return"
    /\ log' = <<>>
    /\ UNCHANGED <<now, AccessToken, sesh, store, tokRes, ret>>
    /\ UNCHANGED <<pollVars, listVars, uploadVars>>

TokenReturn ==
    /\ pc = "Token_return"
    /\ pc' = "idle"
    /\ ret' = [op |-> "Token", val |-> tokRes.token, err |-> tokRes.err]
    /\ UNCHANGED <<now, AccessToken, sesh, store, op, tokRet, tokRes, log>>
    /\ UNCHANGED <<pollVars, listVars, uploadVars>>


\* The running call returns (val, err) to the caller.
Return(val, err) ==
    /\ pc' = "idle"
    /\ ret' = [op |-> op, val |-> val, err |-> err]

\* ------------------------------------------------------------ NewPickerSession

SessionIDs == {<<"s1">>, <<"s2">>}

\* A faulty PollingURI: the identifier is left out.
PollingURIOfNothing(id) == sessionsUrl \o <<"/">>

\* fmt.Sprintf("https://photospicker.googleapis.com/v1/sessions/%s", ID)
PollingURI(id) == sessionsUrl \o <<"/">> \o id

\* What POST /sessions may answer.
SessionResponses ==
    {[kind |-> "transport"], [kind |-> "garbage"], [kind |-> "error"]}
    \cup [kind : {"json"}, ID : SessionIDs, MediaItemsSet : BOOLEAN]

SessionResp(r) == [ev |-> "session", resp |-> r]

CallNewPickerSession ==
    /\ pc = "idle" /\ op = Nil
    /\ op' = "NewPickerSession"
    /\ pc' = "Token"
    /\ tokRet' = "NewPickerSession_post"
    /\ log' = <<>>
    /\ UNCHANGED <<now, AccessToken, sesh, store, tokRes, ret>>
    /\ UNCHANGED <<pollVars, listVars, uploadVars>>

\* NewPickerSession from the return of Token() on: the POST, the parse, the
\* error payload, the polling URI.
NewPickerSessionPost ==
    /\ pc = "NewPickerSession_post"
    /\ IF tokRes.err # Nil
       THEN /\ Return(NilPtr, tokRes.err)
            /\ UNCHANGED <<sesh, log>>
       ELSE \E r \in SessionResponses :
            /\ log' = log \o <<Req(Deref(tokRes.token).AccessToken, "POST",
                                   sessionsUrl, {}), SessionResp(r)>>
            /\ CASE r.kind = "transport" ->
                        Return(NilPtr, ErrTransport) /\ UNCHANGED sesh
                  [] r.kind = "garbage" ->
                        Return(NilPtr, ErrUnmarshal) /\ UNCHANGED sesh
                  [] r.kind = "error" ->
                        Return(NilPtr, ErrGooglePhotos) /\ UNCHANGED sesh
                  [] OTHER ->
                        LET gpResponse == [ID |-> r.ID,
                                           PollingURI |-> PollingURI(r.ID),
                                           MediaItemsSet |-> r.MediaItemsSet,
                                           Credentials |-> "c"]
                        IN  /\ Return(Ptr(gpResponse), Nil)
                            /\ sesh' = Ptr(gpResponse)
    /\ UNCHANGED <<now, AccessToken, store, op, tokRet, tokRes>>
    /\ UNCHANGED <<pollVars, listVars, uploadVars>>


\* ------------------------------------------------------------ Poll

\* What GET <polling URI> may answer.
StatusResponses ==
    {[kind |-> "transport"], [kind |-> "garbage"], [kind |-> "error"]}
    \cup [kind : {"json"}, MediaItemsSet : BOOLEAN]

Callback(i, set, res) == [ev |-> "cb", i |-> i, set |-> set, res |-> res]
CtxCheck(err) == [ev |-> "ctx", err |-> err]
Sleep == [ev |-> "sleep"]
Status(r) == [ev |-> "status", resp |-> r]

\* A faulty CtxErr: some other context is asked, one never cancelled.
CtxErrOfBackground == Nil

\* ctx.Err(): nil until the context is cancelled
CtxErr == IF cancelled THEN ErrCanceled ELSE Nil

\* A faulty PollingDone: the loop ends on any status that parses.
PollingDoneAlways(resp) == TRUE

\* A faulty PollingDone: the loop also ends once a status has been read before.
PollingDoneOrTired(resp) == resp.MediaItemsSet \/ polls >= 1

\* A faulty PollingDone: the loop does not end once the context is cancelled.
PollingDoneUnlessCancelled(resp) == resp.MediaItemsSet /\ ~cancelled

\* if resp.MediaItemsSet { break }
PollingDone(resp) == resp.MediaItemsSet

\* A faulty RoundStart: a round leaves out the first callback.
RoundStartsAtSecond == 1 + 1

\* for _, cb := range callbacks: a round begins with the first callback
RoundStart == 1

\* The caller calls Poll on its session with some callbacks.
CallPoll ==
    /\ pc = "idle" /\ op = Nil
    /\ sesh # NilPtr
    /\ op' = "Poll"
    /\ pc' = "Poll_loop"
    /\ \E n \in 0..MaxCallbacks : callbacks' = n
    /\ cbIdx' = RoundStart
    /\ polls' = 0
    /\ cancelled' = FALSE
    /\ log' = <<>>
    /\ UNCHANGED <<now, AccessToken, sesh, store, tokRet, tokRes, ret>>
    /\ UNCHANGED <<listVars, uploadVars>>

\* The caller (or a deadline) cancels the context while Poll runs.
Cancel ==
    /\ op = "Poll" /\ pc # "idle"
    /\ ~cancelled
    /\ cancelled' = TRUE
    /\ UNCHANGED <<now, AccessToken, sesh, store, op, pc, tokRet, tokRes,
                   callbacks, cbIdx, polls, ret, log>>
    /\ UNCHANGED <<listVars, uploadVars>>

\* A faulty InvokeCallback: the callback's answer is dropped.
InvokeCallbackIgnored ==
    /\ cbIdx <= callbacks
    /\ \E res \in BOOLEAN :
        /\ log' = Append(log, Callback(cbIdx, Deref(sesh).MediaItemsSet, res))
        /\ cbIdx' = cbIdx + 1
        /\ UNCHANGED <<pc, ret>>
    /\ UNCHANGED <<now, AccessToken, sesh, store, op, tokRet, tokRes>>
    /\ UNCHANGED <<cancelled, callbacks, polls>>
    /\ UNCHANGED <<listVars, uploadVars>>

\* One callback of a round: cb(s), and the return when it answers false.
InvokeCallback ==
    /\ cbIdx <= callbacks
    /\ \E res \in BOOLEAN :
        /\ log' = Append(log, Callback(cbIdx, Deref(sesh).MediaItemsSet, res))
        /\ IF ~res
           THEN Return(NilPtr, ErrPollingCallbackFalse) /\ UNCHANGED cbIdx
           ELSE cbIdx' = cbIdx + 1 /\ UNCHANGED <<pc, ret>>
    /\ UNCHANGED <<now, AccessToken, sesh, store, op, tokRet, tokRes>>
    /\ UNCHANGED <<cancelled, callbacks, polls>>
    /\ UNCHANGED <<listVars, uploadVars>>

\* A callback of the round that opens a turn of the polling loop.
PollCallback ==
    /\ pc = "Poll_loop"
    /\ InvokeCallback

\* After the round of callbacks: the first look at the context, then the sleep
\* begins.
PollCtxBeforeSleep ==
    /\ pc = "Poll_loop"
    /\ cbIdx > callbacks
    /\ log' = Append(log, CtxCheck(CtxErr))
    /\ IF CtxErr # Nil
       THEN Return(NilPtr, CtxErr)
       ELSE pc' = "Poll_sleep" /\ UNCHANGED ret
    /\ UNCHANGED <<now, AccessToken, sesh, store, op, tokRet, tokRes>>
    /\ UNCHANGED <<pollVars, listVars, uploadVars>>

\* time.Sleep(s.PollingConfig.PollInterval) returns.
PollSleep ==
    /\ pc = "Poll_sleep"
    /\ log' = Append(log, Sleep)
    /\ pc' = "Poll_slept"
    /\ UNCHANGED <<now, AccessToken, sesh, store, op, tokRet, tokRes, ret>>
    /\ UNCHANGED <<pollVars, listVars, uploadVars>>

\* The second look at the context, then Token() is called.
PollCtxAfterSleep ==
    /\ pc = "Poll_slept"
    /\ log' = Append(log, CtxCheck(CtxErr))
    /\ IF CtxErr # Nil
       THEN Return(NilPtr, CtxErr) /\ UNCHANGED tokRet
       ELSE pc' = "Token" /\ tokRet' = "Poll_get" /\ UNCHANGED ret
    /\ UNCHANGED <<now, AccessToken, sesh, store, op, tokRes>>
    /\ UNCHANGED <<pollVars, listVars, uploadVars>>

\* A faulty MarkComplete: the session takes over the fields of the response,
\* which has no polling URI.
MarkCompleteFromResponse(s) ==
    [s EXCEPT !.MediaItemsSet = TRUE, !.PollingURI = <<>>]

\* s.MediaItemsSet = true
MarkComplete(s) == [s EXCEPT !.MediaItemsSet = TRUE]

\* A faulty StatusFetchFailed: after a failed fetch the loop goes round again.
StatusFetchRetried(err) == pc' = "Poll_loop" /\ UNCHANGED ret

\* return nil, err: a status fetch that failed ends Poll
StatusFetchFailed(err) == Return(NilPtr, err)

\* Poll from the return of Token() on: the GET of the polling URI, the parse,
\* the error payload, and the end of the loop when picking is done.
PollGet ==
    /\ pc = "Poll_get"
    /\ IF tokRes.err # Nil
       THEN /\ StatusFetchFailed(tokRes.err)
            /\ UNCHANGED <<sesh, log, cbIdx, polls>>
       ELSE \E r \in StatusResponses :
            /\ r.kind = "json" /\ ~r.MediaItemsSet => polls < MaxPolls
            /\ log' = log \o <<Req(Deref(tokRes.token).AccessToken, "GET",
                             Deref(sesh).PollingURI, {}), Status(r)>>
            /\ polls' = polls + 1
            /\ CASE r.kind = "transport" ->
                    StatusFetchFailed(ErrTransport) /\ UNCHANGED <<sesh, cbIdx>>
                 [] r.kind = "garbage" ->
                    StatusFetchFailed(ErrUnmarshal) /\ UNCHANGED <<sesh, cbIdx>>
                 [] r.kind = "error" ->
                    StatusFetchFailed(ErrGooglePhotos) /\ UNCHANGED <<sesh, cbIdx>>
                 [] OTHER ->
                    /\ cbIdx' = RoundStart
                    /\ IF PollingDone(r)
                       THEN /\ sesh' = Ptr(MarkComplete(Deref(sesh)))
                            /\ pc' = "Poll_final"
                       ELSE /\ pc' = "Poll_loop"
                            /\ UNCHANGED sesh
                    /\ UNCHANGED ret
    /\ UNCHANGED <<now, AccessToken, store, op, tokRet, tokRes>>
    /\ UNCHANGED <<cancelled, callbacks>>
    /\ UNCHANGED <<listVars, uploadVars>>

\* The round of callbacks after the loop.
PollFinalCallback ==
    /\ pc = "Poll_final"
    /\ InvokeCallback

\* return s.listPickerContents(): it opens with Token().
PollList ==
    /\ pc = "Poll_final"
    /\ cbIdx > callbacks
    /\ pc' = "Token"
    /\ tokRet' = "list_start"
    /\ UNCHANGED <<now, AccessToken, sesh, store, op, tokRes, ret, log>>
    /\ UNCHANGED <<pollVars, listVars, uploadVars>>


\* ------------------------------------------------------------ listPickerContents

\* Two picked items: a photo whose filename has an extension, and a video
\* whose filename has none.
Item1 ==
    [ID |-> <<"i1">>, CreateTime |-> "2024-01-01T00:00:00Z", Type |-> "PHOTO",
     Media |-> [BaseURL |-> <<"https://lh3.googleusercontent.com/u1">>,
                MimeType |-> "image/jpeg",
                Filename |-> <<"a", ".", "jpg">>,
                Metadata |-> [Width |-> 4000, Height |-> 3000,
                              CameraMake |-> "Canon", CameraModel |-> "R5"]]]
Item2 ==
    [ID |-> <<"i2">>, CreateTime |-> "2024-02-02T00:00:00Z", Type |-> "VIDEO",
     Media |-> [BaseURL |-> <<"https://lh3.googleusercontent.com/u2">>,
                MimeType |-> "video/mp4",
                Filename |-> <<"b">>,
                Metadata |-> [Width |-> 1920, Height |-> 1080,
                              CameraMake |-> "", CameraModel |-> ""]]]
\* An item whose identifier has dots in it and whose filename has no
\* extension.
Item3 ==
    [ID |-> <<"i1", ".", ".", "jpg">>, CreateTime |-> "2024-03-03T00:00:00Z",
     Type |-> "PHOTO",
     Media |-> [BaseURL |-> <<"https://lh3.googleusercontent.com/u3">>,
                MimeType |-> "image/jpeg",
                Filename |-> <<"c">>,
                Metadata |-> [Width |-> 800, Height |-> 600,
                              CameraMake |-> "", CameraModel |-> ""]]]
Items == {Item1, Item2, Item3}

PageItems == {<<Item1>>, <<Item2, Item1>>}
PageTokens == {"", "a", "b", "start"}

\* What GET /mediaItems may answer.
PageResponses ==
    {[kind |-> "transport"], [kind |-> "garbage"], [kind |-> "error"]}
    \cup [kind : {"json"}, Items : PageItems, NextPageToken : PageTokens]

Page(r) == [ev |-> "page", resp |-> r]

IsListReq(e) == e.ev = "req" /\ e.url = mediaItemsUrl
ListRequests(l) == SelectSeq(l, IsListReq)

\* query.Set("sessionId", s.ID), and pageToken when
\* nextPageToken != "start" && nextPageToken != ""
ListQuery(id, tok) ==
    {<<"sessionId", id>>}
    \cup (IF tok # "start" /\ tok # "" THEN {<<"pageToken", tok>>} ELSE {})

\* A faulty AppendItems: the page's items go in front.
PrependItems(acc, items) == items \o acc

\* photos = append(photos, items.Items...)
AppendItems(acc, items) == acc \o items

\* A faulty OnPageError: the items gathered so far are handed back.
PartialOnPageError(acc) == Ptr(acc)

\* return nil, items.Error: no items are returned along with the error
OnPageError(acc) == NilPtr

\* listPickerContents from the return of Token() to the loop.
ListStart ==
    /\ pc = "list_start"
    /\ IF tokRes.err # Nil
       THEN /\ Return(NilPtr, tokRes.err)
            /\ UNCHANGED listVars
       ELSE /\ photos' = <<>>
            /\ nextPageToken' = "start"
            /\ pc' = "list_loop"
            /\ UNCHANGED ret
    /\ UNCHANGED <<now, AccessToken, sesh, store, op, tokRet, tokRes, log>>
    /\ UNCHANGED <<pollVars, uploadVars>>

\* One turn of the loop: the GET of a page, the parse, the error payload, the
\* append; the return when the page names no next page.
ListGet ==
    /\ pc = "list_loop"
    /\ nextPageToken # ""
    /\ \E r \in PageResponses :
        /\ r.kind = "json" /\ r.NextPageToken # ""
              => Len(ListRequests(log)) + 1 < MaxPages
        /\ log' = log \o <<Req(Deref(tokRes.token).AccessToken, "GET",
                               mediaItemsUrl,
                               ListQuery(Deref(sesh).ID, nextPageToken)), Page(r)>>
        /\ CASE r.kind = "transport" ->
                Return(NilPtr, ErrTransport) /\ UNCHANGED listVars
             [] r.kind = "garbage" ->
                Return(NilPtr, ErrUnmarshal) /\ UNCHANGED listVars
             [] r.kind = "error" ->
                Return(OnPageError(photos), ErrGooglePhotos) /\ UNCHANGED listVars
             [] OTHER ->
                /\ photos' = AppendItems(photos, r.Items)
                /\ nextPageToken' = r.NextPageToken
                /\ IF r.NextPageToken = ""
                   THEN Return(Ptr(AppendItems(photos, r.Items)), Nil)
                   ELSE UNCHANGED <<pc, ret>>
    /\ UNCHANGED <<now, AccessToken, sesh, store, op, tokRet, tokRes>>
    /\ UNCHANGED <<pollVars, uploadVars>>


\* ------------------------------------------------------------ S3

Bucket == "bucket"

\* NewS3Options(bucket): the defaults
NewS3Options(bucket) ==
    [Bucket |-> bucket,
     PhotosJSONKey |-> <<"photos", ".", "json">>,
     PhotosPrefix |-> <<"photos", "/">>,
     Width |-> 0, Height |-> 0, AddExtension |-> FALSE]

\* The options a caller may hand to UploadToS3: the defaults, with the sizes,
\* the prefix and AddExtension set or left alone.
OptsSet ==
    { [NewS3Options(Bucket) EXCEPT !.Width = w, !.Height = h,
                                   !.AddExtension = x, !.PhotosPrefix = p] :
        w \in {0, 2048}, h \in {0, 1024}, x \in BOOLEAN,
        p \in {<<"photos", "/">>, <<"p">>} }

EmptyStore == <<>>

\* A faulty PutObject: an object that is there already is left alone.
PutObjectKeepFirst(st, key, obj) ==
    [k \in DOMAIN st \cup {key} |-> IF k \in DOMAIN st THEN st[k] ELSE obj]

\* uploader.Upload: the object at key is whatever was written last
PutObject(st, key, obj) ==
    [k \in DOMAIN st \cup {key} |-> IF k = key THEN obj ELSE st[k]]

\* uploader.Upload of obj at key was tried (session.NewSession first), and
\* err is how it ended.
Put(key, obj, err) == [ev |-> "put", key |-> key, obj |-> obj, err |-> err]
IsPut(e) == e.ev = "put"
Puts(l) == SelectSeq(l, IsPut)

\* What uploader.Upload (with session.NewSession before it) may do.
S3Outcomes == {Nil, ErrAwsSession, ErrS3Upload}

\* json.Marshal of a GooglePhotosPickedItem: the struct tags name mediaFile and
\* mediaFileMetadata, the other fields keep their Go names.
MarshalItem(p) ==
    [ID |-> p.ID, CreateTime |-> p.CreateTime, Type |-> p.Type,
     mediaFile |-> [BaseURL |-> p.Media.BaseURL,
                    MimeType |-> p.Media.MimeType,
                    Filename |-> p.Media.Filename,
                    mediaFileMetadata |-> p.Media.Metadata]]

\* json.Marshal(photos)
Marshal(ps) == [i \in 1..Len(ps) |-> MarshalItem(ps[i])]

\* A faulty UnmarshalItem: the media file is looked for under the Go name of
\* the field, is not found, and is left at its zero value.
UnmarshalItemUntagged(j) ==
    [ID |-> j.ID, CreateTime |-> j.CreateTime, Type |-> j.Type,
     Media |-> [BaseURL |-> <<>>, MimeType |-> "", Filename |-> <<>>,
                Metadata |-> [Width |-> 0, Height |-> 0,
                              CameraMake |-> "", CameraModel |-> ""]]]

\* json.Unmarshal into a GooglePhotosPickedItem: mediaFile and
\* mediaFileMetadata are read by their tags, the other fields by their names.
UnmarshalItem(j) ==
    [ID |-> j.ID, CreateTime |-> j.CreateTime, Type |-> j.Type,
     Media |-> [BaseURL |-> j.mediaFile.BaseURL,
                MimeType |-> j.mediaFile.MimeType,
                Filename |-> j.mediaFile.Filename,
                Metadata |-> j.mediaFile.mediaFileMetadata]]

\* json.Unmarshal(buf, &photos)
Unmarshal(js) == [i \in 1..Len(js) |-> UnmarshalItem(js[i])]

ErrNoSuchKey == "error fetching: NoSuchKey"

\* o.PhotoJSON(), that is S3Key(o.Bucket, o.PhotosJSONKey): the object is read
\* and parsed. (The manifest key holds nothing but manifests here.)
PhotoJSON(o, st) ==
    IF o.PhotosJSONKey \notin DOMAIN st
    THEN [val |-> NilPtr, err |-> ErrNoSuchKey]
    ELSE [val |-> Ptr(Unmarshal(st[o.PhotosJSONKey].Body)), err |-> Nil]

\* ------------------------------------------------------------ UploadToS3

PhotoSeqs ==
    UNION { [1..n -> Items] : n \in 0..MaxPhotos }

\* What GET <media URL> may answer: the status is never looked at.
MediaResponses ==
    {[kind |-> "transport"],
     [kind |-> "http", StatusCode |-> 200, Body |-> "bytes1"],
     [kind |-> "http", StatusCode |-> 200, Body |-> "bytes2"],
     [kind |-> "http", StatusCode |-> 403, Body |-> "denied"]}

Media(r) == [ev |-> "media", resp |-> r]

\* photoUrl of downloadAndStore
PhotoUrl(o, item) ==
    LET base == item.Media.BaseURL
        withWidth == IF o.Width # 0
                     THEN base \o <<"=w">> \o FormatInt(o.Width)
                     ELSE base
    IN  IF o.Height # 0
        THEN base \o <<"=h">> \o FormatInt(o.Height)
        ELSE withWidth

\* filepath.Ext: the suffix from the last dot of the last path element on
RECURSIVE ExtFrom(_, _)
ExtFrom(path, i) ==
    IF i = 0 \/ path[i] = "/" THEN <<>>
    ELSE IF path[i] = "." THEN SubSeq(path, i, Len(path))
    ELSE ExtFrom(path, i - 1)

Ext(path) == ExtFrom(path, Len(path))

\* key of downloadAndStore
StorageKey(o, item) ==
    LET key == o.PhotosPrefix \o <<"/">> \o item.ID
        extension == Ext(item.Media.Filename)
    IN  IF o.AddExtension /\ extension # <<>>
        THEN key \o <<".">> \o extension
        ELSE key

\* A faulty Failed: the error of downloadAndStore is dropped.
FailedNever(err) == FALSE

\* if err := opts.downloadAndStore(token.AccessToken, p); err != nil
Failed(err) == err # Nil

\* A faulty LoopDone: the loop ends one item early.
LoopDoneEarly(i, ps) == i >= Len(ps)

\* for _, p := range photos: the loop has run through
LoopDone(i, ps) == i > Len(ps)

CallUploadToS3 ==
    /\ pc = "idle" /\ op = Nil
    /\ op' = "UploadToS3"
    /\ \E ps \in PhotoSeqs : photos' = ps
    /\ \E o \in OptsSet : opts' = o
    /\ idx' = 1
    /\ pc' = "Token"
    /\ tokRet' = "Upload_start"
    /\ log' = <<>>
    /\ UNCHANGED <<now, AccessToken, sesh, store, tokRes, ret>>
    /\ UNCHANGED <<pollVars, nextPageToken>>

\* UploadToS3 from the return of Token() to the loop.
UploadStart ==
    /\ pc = "Upload_start"
    /\ IF tokRes.err # Nil
       THEN Return(NilPtr, tokRes.err)
       ELSE pc' = "Upload_loop" /\ UNCHANGED ret
    /\ UNCHANGED <<now, AccessToken, sesh, store, op, tokRet, tokRes, log>>
    /\ UNCHANGED <<pollVars, listVars, uploadVars>>

\* One turn of the loop: downloadAndStore of photos[idx].
UploadItem ==
    /\ pc = "Upload_loop"
    /\ ~LoopDone(idx, photos)
    /\ LET item == photos[idx]
           get == Req(Deref(tokRes.token).AccessToken, "GET",
                      PhotoUrl(opts, item), {})
           key == StorageKey(opts, item)
       IN  \E r \in MediaResponses :
            IF r.kind = "transport"
            THEN /\ log' = log \o <<get, Media(r)>>
                 /\ UNCHANGED store
                 /\ IF Failed(ErrTransport)
                    THEN Return(NilPtr, ErrTransport) /\ UNCHANGED idx
                    ELSE idx' = idx + 1 /\ UNCHANGED <<pc, ret>>
            ELSE \E s3 \in S3Outcomes :
                 LET obj == [Body |-> r.Body,
                             ContentType |-> item.Media.MimeType]
                 IN  /\ log' = log \o <<get, Media(r), Put(key, obj, s3)>>
                     /\ IF s3 = Nil
                        THEN store' = PutObject(store, key, obj)
                        ELSE UNCHANGED store
                     /\ IF Failed(s3)
                        THEN Return(NilPtr, s3) /\ UNCHANGED idx
                        ELSE idx' = idx + 1 /\ UNCHANGED <<pc, ret>>
    /\ UNCHANGED <<now, AccessToken, sesh, op, tokRet, tokRes>>
    /\ UNCHANGED <<pollVars, listVars, opts>>

\* After the loop: SetPhotoJSON, that is SetS3Key(Bucket, PhotosJSONKey, photos).
UploadManifest ==
    /\ pc = "Upload_loop"
    /\ LoopDone(idx, photos)
    /\ \E s3 \in S3Outcomes :
        LET obj == [Body |-> Marshal(photos),
                    ContentType |-> "application/json"]
        IN  /\ log' = Append(log, Put(opts.PhotosJSONKey, obj, s3))
            /\ Return(NilPtr, s3)
            /\ IF s3 # Nil
               THEN UNCHANGED store
               ELSE store' = PutObject(store, opts.PhotosJSONKey, obj)
    /\ UNCHANGED <<now, AccessToken, sesh, op, tokRet, tokRes>>
    /\ UNCHANGED <<pollVars, listVars, uploadVars>>

\* ------------------------------------------------------------ cmd/picker

\* main calls NewPickerSession, then Poll on the session it got, then
\* UploadToS3 of the items Poll returned, all on one Credentials. Of what the
\* calls before did, the log keeps the token exchanges.

Called(name) == [ev |-> "call", op |-> name]

IsTokenEvent(e) ==
    \/ e.ev \in {"expired", "token", "call"}
    \/ e.ev = "req" /\ e.url = tokenUrl

TokenEvents(l) == SelectSeq(l, IsTokenEvent)

\* sesh.Poll(context.Background(), func(s) bool {...}): one callback
ThenPoll ==
    /\ pc = "idle" /\ op = "NewPickerSession" /\ ret.err = Nil
    /\ op' = "Poll"
    /\ pc' = "Poll_loop"
    /\ callbacks' = 1
    /\ cbIdx' = RoundStart
    /\ polls' = 0
    /\ cancelled' = FALSE
    /\ log' = Append(TokenEvents(log), Called("Poll"))
    /\ UNCHANGED <<now, AccessToken, sesh, store, tokRet, tokRes, ret>>
    /\ UNCHANGED <<listVars, uploadVars>>

\* s3opts := NewS3Options(args.Bucket); s3opts.Width = 2048;
\* creds.UploadToS3(photos, s3opts). (Poll's locals are gone.)
ThenUploadToS3 ==
    /\ pc = "idle" /\ op = "Poll" /\ ret.err = Nil
    /\ op' = "UploadToS3"
    /\ photos' = Deref(ret.val)
    /\ opts' = [NewS3Options(Bucket) EXCEPT !.Width = 2048]
    /\ idx' = 1
    /\ pc' = "Token"
    /\ tokRet' = "Upload_start"
    /\ log' = Append(TokenEvents(log), Called("UploadToS3"))
    /\ callbacks' = 0 /\ cbIdx' = 1 /\ polls' = 0 /\ cancelled' = FALSE
    /\ nextPageToken' = ""
    /\ UNCHANGED <<now, AccessToken, sesh, store, tokRes, ret>>

\* ------------------------------------------------------------ the program

\* A behaviour is one call of the library, made in a state the caller can have
\* brought about by earlier calls: a token cached or not, expired or not; a
\* session held or not, picked from or not; a bucket empty or written to.

\* The tokens a caller may have put in Credentials.AccessToken.
SuppliedTokens ==
    [AccessToken : {"tok0"}, ExpiresIn : {0}, ExpiresAt : 0..MaxTime]

\* The sessions NewPickerSession returns (and Poll marks).
Sessions ==
    { [ID |-> id, PollingURI |-> PollingURI(id), MediaItemsSet |-> b,
       Credentials |-> "c"] : id \in SessionIDs, b \in BOOLEAN }

\* The bucket after UploadToS3(<<Item2>>, NewS3Options(Bucket)) succeeded.
UsedStore ==
    LET o == NewS3Options(Bucket)
        s1 == PutObject(EmptyStore, StorageKey(o, Item2),
                        [Body |-> "bytes1", ContentType |-> Item2.Media.MimeType])
    IN  PutObject(s1, o.PhotosJSONKey,
                  [Body |-> Marshal(<<Item2>>), ContentType |-> "application/json"])

InitCommon ==
    /\ now = 0
    /\ AccessToken \in {NilPtr} \cup { Ptr(t) : t \in SuppliedTokens }
    /\ cancelled = FALSE
    /\ op = Nil
    /\ pc = "idle"
    /\ tokRet = Nil
    /\ tokRes = [token |-> NilPtr, err |-> Nil]
    /\ callbacks = 0
    /\ cbIdx = 1
    /\ polls = 0
    /\ photos = <<>>
    /\ nextPageToken = ""
    /\ opts = NewS3Options(Bucket)
    /\ idx = 1
    /\ ret = [op |-> Nil, val |-> NilPtr, err |-> Nil]
    /\ log = <<>>

Init ==
    /\ InitCommon
    /\ sesh \in {NilPtr} \cup { Ptr(x) : x \in Sessions }
    /\ store \in {EmptyStore, UsedStore}

\* The caller has no session and an empty bucket.
InitToken ==
    /\ InitCommon
    /\ sesh = NilPtr
    /\ store = EmptyStore

\* The bucket is empty.
InitPicker ==
    /\ InitCommon
    /\ sesh \in {NilPtr} \cup { Ptr(x) : x \in Sessions }
    /\ store = EmptyStore

\* The caller has no session.
InitUpload ==
    /\ InitCommon
    /\ sesh = NilPtr
    /\ store \in {EmptyStore, UsedStore}

\* main starts with no session and, here, an empty bucket.
InitChain ==
    /\ InitCommon
    /\ sesh = NilPtr
    /\ store = EmptyStore

TokenSteps == TokenCheck \/ TokenPost

\* Token() called by the caller.
NextToken == CallToken \/ TokenSteps \/ TokenReturn

\* The picker session: NewPickerSession, and Poll with listPickerContents.
NextPicker ==
    \/ TokenSteps
    \/ CallNewPickerSession \/ NewPickerSessionPost
    \/ CallPoll \/ Cancel \/ PollCallback \/ PollCtxBeforeSleep \/ PollSleep
    \/ PollCtxAfterSleep \/ PollGet \/ PollFinalCallback \/ PollList
    \/ ListStart \/ ListGet

\* The transfer: UploadToS3.
NextUpload ==
    \/ TokenSteps
    \/ CallUploadToS3 \/ UploadStart \/ UploadItem \/ UploadManifest

\* The program of cmd/picker: its context is never cancelled.
NextChain ==
    \/ TokenSteps
    \/ CallNewPickerSession \/ NewPickerSessionPost
    \/ ThenPoll \/ PollCallback \/ PollCtxBeforeSleep \/ PollSleep
    \/ PollCtxAfterSleep \/ PollGet \/ PollFinalCallback \/ PollList
    \/ ListStart \/ ListGet
    \/ ThenUploadToS3 \/ UploadStart \/ UploadItem \/ UploadManifest

Next == NextToken \/ NextPicker \/ NextUpload \/ NextChain

Spec == Init /\ [][Next]_vars

\* The caller makes calls of one part of the library only.
SpecToken == InitToken /\ [][NextToken]_vars
SpecPicker == InitPicker /\ [][NextPicker]_vars
SpecUpload == InitUpload /\ [][NextUpload]_vars
SpecChain == InitChain /\ [][NextChain]_vars


\* ------------------------------------------------------------ reading the log

IsStatus(e) == e.ev = "status"
Statuses(l) == SelectSeq(l, IsStatus)
Complete(e) == e.resp.kind = "json" /\ e.resp.MediaItemsSet
Incomplete(e) == e.resp.kind = "json" /\ ~e.resp.MediaItemsSet

IsStatusGet(e) ==
    e.ev = "req" /\ e.method = "GET" /\ e.url = PollingURI(Deref(sesh).ID)
StatusGets(l) == SelectSeq(l, IsStatusGet)

IsCallback(e) == e.ev = "cb"
Callbacks(l) == SelectSeq(l, IsCallback)

IsPage(e) == e.ev = "page"
Pages(l) == SelectSeq(l, IsPage)

\* The items of the pages, page after page.
RECURSIVE ConcatPages(_)
ConcatPages(pages) ==
    IF pages = <<>> THEN <<>>
    ELSE ConcatPages(SubSeq(pages, 1, Len(pages) - 1))
             \o pages[Len(pages)].resp.Items

ErrOf(kind) ==
    CASE kind = "transport" -> ErrTransport
      [] kind = "garbage" -> ErrUnmarshal
      [] kind = "error" -> ErrGooglePhotos

\* What listPickerContents returned, as the log tells it: the error of Token()
\* when no page was asked for, the error of the last page, or all the items.
ListingResult(l) ==
    LET pages == Pages(l)
    IN  IF pages = <<>> THEN [val |-> NilPtr, err |-> tokRes.err]
        ELSE LET last == pages[Len(pages)].resp
             IN  IF last.kind # "json"
                 THEN [val |-> NilPtr, err |-> ErrOf(last.kind)]
                 ELSE [val |-> Ptr(ConcatPages(pages)), err |-> Nil]

PollReturned == op = "Poll" /\ pc = "idle"

\* ------------------------------------------------------------ C1

\* C1: when the first N status responses report picking incomplete and the
\* (N+1)th reports it complete, every callback answers true and the context
\* is not cancelled, Poll has made exactly N+1 status fetches when it returns,
\* and what it returns is what the listing returned. (And a listing is only
\* ever asked for after a status that reported complete.)
C1_PollStopsAtFirstComplete ==
    LET st == Statuses(log)
        done == { i \in 1..Len(st) : Complete(st[i]) }
    IN  /\ (PollReturned /\ ~cancelled /\ done # {}
              /\ \A i \in 1..Len(log) : IsCallback(log[i]) => log[i].res)
           => LET k == CHOOSE i \in done : \A j \in done : i <= j
              IN  /\ \A j \in 1..(k - 1) : Incomplete(st[j])
                  /\ Len(st) = k
                  /\ Len(StatusGets(log)) = k
                  /\ ret.err # Nil \/ Pages(log) # <<>>
                  /\ [val |-> ret.val, err |-> ret.err] = ListingResult(log)
        /\ (op = "Poll" /\ ListRequests(log) # <<>>)
           => (st # <<>> /\ Complete(st[Len(st)]))

\* Poll returned the items after two incomplete statuses and a complete one,
\* with two callbacks.
C1_Witness ==
    /\ PollReturned /\ ~cancelled
    /\ callbacks = 2
    /\ Len(Statuses(log)) = 3
    /\ Len(StatusGets(log)) = 3
    /\ ret.err = Nil
    /\ Len(Deref(ret.val)) >= 2

\* ------------------------------------------------------------ C2

\* C2: a callback that answers false, in a round of the loop or in the round
\* after it, is the last thing Poll does: Poll has returned
\* ErrPollingCallbackFalse and no items, and no request (token exchange,
\* status fetch, listing) follows the callback.
C2_CallbackFalseAborts ==
    \A i \in 1..Len(log) :
        (IsCallback(log[i]) /\ ~log[i].res)
        => /\ i = Len(log)
           /\ pc = "idle"
           /\ ret = [op |-> "Poll", val |-> NilPtr,
                     err |-> ErrPollingCallbackFalse]

\* The second callback answered false in the round after completion.
C2_Witness ==
    /\ PollReturned
    /\ ret.err = ErrPollingCallbackFalse
    /\ \E i \in 1..Len(log) : IsStatus(log[i]) /\ Complete(log[i])
    /\ log[Len(log)] = Callback(2, TRUE, FALSE)

\* ------------------------------------------------------------ C3

IsPollEvent(e) == e.ev \in {"cb", "ctx", "sleep", "status"}
PollEvents(l) == SelectSeq(l, IsPollEvent)

AtCtxCheck ==
    op = "Poll" /\ ((pc = "Poll_loop" /\ cbIdx > callbacks) \/ pc = "Poll_slept")

CancelledReturn ==
    /\ pc = "idle"
    /\ ret = [op |-> "Poll", val |-> NilPtr, err |-> ErrCanceled]

\* Every sleep has one check of the context right before it and one right
\* after it, every status fetch comes right after the check that follows a
\* sleep, and a check that finds the context cancelled is the last thing
\* Poll does.
C3_Checks ==
    LET f == PollEvents(log)
    IN  /\ \A j \in 1..Len(f) :
            /\ f[j].ev = "sleep"
               => /\ j > 1 /\ f[j - 1].ev = "ctx"
                  /\ j > 2 => f[j - 2].ev # "ctx"
                  /\ j < Len(f) => f[j + 1].ev = "ctx"
                  /\ j + 1 < Len(f) => f[j + 2].ev # "ctx"
            /\ f[j].ev = "status"
               => j > 3 /\ f[j - 1].ev = "ctx" /\ f[j - 2].ev = "sleep"
            /\ f[j].ev = "ctx"
               => \/ j > 1 /\ f[j - 1].ev = "sleep"
                  \/ j < Len(f) /\ f[j + 1].ev = "sleep"
                  \/ j = Len(f) /\ (pc = "Poll_sleep" \/ CancelledReturn)
        /\ \A i \in 1..Len(log) :
            (log[i].ev = "ctx" /\ log[i].err # Nil)
            => i = Len(log) /\ CancelledReturn

\* C3: in every turn of the polling loop the context is looked at once before
\* and once after the sleep; a look that finds it cancelled makes Poll return
\* the context's error at once, with no request after it.
C3_CancellationChecked ==
    /\ []C3_Checks
    /\ [][(AtCtxCheck /\ cancelled)
           => (CancelledReturn' /\ log' = Append(log, CtxCheck(ErrCanceled)))]_vars

\* Poll returned the context's error from the check after the sleep, in its
\* second turn.
C3_Witness ==
    /\ PollReturned
    /\ ret.err = ErrCanceled
    /\ Len(Statuses(log)) = 1
    /\ Len(log) > 1 /\ log[Len(log) - 1] = Sleep


\* ------------------------------------------------------------ C4

\* C4: for any run of listing pages of which only the last names no next page,
\* listPickerContents returns the pages' items, page after page and within a
\* page in the page's order; it asks once per page, and it asks for nothing
\* after the page that names no next page.
C4_PaginationComplete ==
    LET pages == Pages(log)
        n == Len(pages)
    IN  op = "Poll"
        => /\ Len(ListRequests(log)) = n
           /\ \A i \in 1..(n - 1) :
                pages[i].resp.kind = "json" /\ pages[i].resp.NextPageToken # ""
           /\ pc = "list_loop" /\ n > 0 => photos = ConcatPages(pages)
           /\ (n > 0 /\ pages[n].resp.kind = "json"
                 /\ pages[n].resp.NextPageToken = "")
              => /\ log[Len(log)] = pages[n]
                 /\ pc = "idle"
                 /\ ret = [op |-> "Poll", val |-> Ptr(ConcatPages(pages)),
                           err |-> Nil]

\* The listing returned after two pages with different items.
C4_Witness ==
    /\ PollReturned /\ ret.err = Nil
    /\ Len(Pages(log)) = 2
    /\ Pages(log)[1].resp.Items = <<Item2, Item1>>
    /\ Pages(log)[2].resp.Items = <<Item1>>
    /\ Deref(ret.val) = <<Item2, Item1, Item1>>

\* ------------------------------------------------------------ C5

\* C5: the first listing request carries no pageToken, and every later one
\* carries as pageToken the nextPageToken of the response before it, whatever
\* that (non-empty) token is.
C5_PageTokenChain ==
    LET reqs == ListRequests(log)
        pages == Pages(log)
        id == <<"sessionId", Deref(sesh).ID>>
    IN  op = "Poll"
        => \A i \in 1..Len(reqs) :
             reqs[i].query =
                IF i = 1 THEN {id}
                ELSE {id, <<"pageToken", pages[i - 1].resp.NextPageToken>>}


\* ------------------------------------------------------------ C6

IsMediaGet(e) == e.ev = "req" /\ e.method = "GET"
MediaGets(l) == SelectSeq(l, IsMediaGet)

HasPrefix(sq, pre) == Len(sq) >= Len(pre) /\ SubSeq(sq, 1, Len(pre)) = pre

\* A download or a storage write that failed.
IsFailure(e) ==
    \/ e.ev = "media" /\ e.resp.kind = "transport"
    \/ e.ev = "put" /\ e.err # Nil
FailureErr(e) == IF e.ev = "media" THEN ErrTransport ELSE e.err

IsManifestPut(e) == e.ev = "put" /\ e.key = opts.PhotosJSONKey
IsItemPut(e) == e.ev = "put" /\ e.key # opts.PhotosJSONKey
ItemPuts(l) == SelectSeq(l, IsItemPut)

\* C6: UploadToS3 takes the items in order and stops at the first whose
\* download or storage write fails: it returns that failure, tries no download
\* and no write after it, writes no manifest, and the objects written before
\* stay in the bucket.
C6_FirstFailureAborts ==
    LET gets == MediaGets(log)
        puts == ItemPuts(log)
    IN  op = "UploadToS3"
        => /\ Len(gets) <= Len(photos)
           /\ \A j \in 1..Len(gets) :
                HasPrefix(gets[j].url, photos[j].Media.BaseURL)
           /\ \A j \in 1..Len(puts) :
                HasPrefix(puts[j].key,
                          opts.PhotosPrefix \o <<"/">> \o photos[j].ID)
           /\ \A i \in 1..Len(log) :
                IsFailure(log[i])
                => /\ i = Len(log)
                   /\ pc = "idle"
                   /\ ret = [op |-> "UploadToS3", val |-> NilPtr,
                             err |-> FailureErr(log[i])]
                   /\ ~IsManifestPut(log[i])
                      => \A k \in 1..Len(log) : ~IsManifestPut(log[k])
           /\ \A i \in 1..Len(log) :
                (IsPut(log[i]) /\ log[i].err = Nil)
                => /\ log[i].key \in DOMAIN store
                   /\ \/ store[log[i].key] = log[i].obj
                      \/ \E k \in (i + 1)..Len(log) :
                            /\ IsPut(log[k]) /\ log[k].err = Nil
                            /\ log[k].key = log[i].key

\* The first of two items was stored and the write of the second failed: the
\* first one's object is in the bucket.
C6_Witness ==
    /\ op = "UploadToS3" /\ pc = "idle"
    /\ photos = <<Item1, Item2>>
    /\ ret.err = ErrS3Upload
    /\ Len(MediaGets(log)) = 2
    /\ Len(ItemPuts(log)) = 2
    /\ StorageKey(opts, Item1) \in DOMAIN store
    /\ store[StorageKey(opts, Item1)].Body = "bytes2"
    /\ StorageKey(opts, Item2) \notin DOMAIN store

\* ------------------------------------------------------------ C7

\* C7: the manifest is written only after every item was downloaded and
\* stored, and it is the call's last storage write: it holds the whole
\* collection handed in, it is written at PhotosJSONKey, and it takes the
\* place of the manifest that was there.
C7_ManifestLast ==
    LET manifest == [Body |-> Marshal(photos),
                     ContentType |-> "application/json"]
    IN  op = "UploadToS3"
        => /\ \A i \in 1..Len(log) :
                IsManifestPut(log[i])
                => /\ i = Len(log)
                   /\ pc = "idle"
                   /\ log[i].obj = manifest
                   /\ Len(MediaGets(log)) = Len(photos)
                   /\ Len(ItemPuts(log)) = Len(photos)
                   /\ \A k \in 1..(i - 1) : ~IsFailure(log[k])
                   /\ ret.err = log[i].err
                   /\ log[i].err = Nil
                      => /\ opts.PhotosJSONKey \in DOMAIN store
                         /\ store[opts.PhotosJSONKey] = manifest
           /\ (pc = "idle" /\ ret.err = Nil)
              => (log # <<>> /\ IsManifestPut(log[Len(log)]))

\* A bucket that held the manifest of an earlier upload of Item2 now holds the
\* manifest of the two items just uploaded.
C7_Witness ==
    /\ op = "UploadToS3" /\ pc = "idle" /\ ret.err = Nil
    /\ photos = <<Item1, Item1>>
    /\ opts.PhotosPrefix = <<"p">>
    /\ StorageKey(NewS3Options(Bucket), Item2) \in DOMAIN store
    /\ store[opts.PhotosJSONKey].Body = Marshal(<<Item1, Item1>>)

\* ------------------------------------------------------------ C8

\* The media URL as the claim has it: the base URL, then =w<Width> when Width
\* is set, then =h<Height> when Height is set.
ClaimedUrl(o, item) ==
    item.Media.BaseURL
        \o (IF o.Width # 0 THEN <<"=w">> \o FormatInt(o.Width) ELSE <<>>)
        \o (IF o.Height # 0 THEN <<"=h">> \o FormatInt(o.Height) ELSE <<>>)

\* C8: the media URL fetched for an item is its base URL followed by
\* =w<Width> when Width is not zero and by =h<Height> when Height is not zero:
\* neither when both are zero, both when both are set.
C8_SizeDirective ==
    LET gets == MediaGets(log)
    IN  op = "UploadToS3"
        => \A j \in 1..Len(gets) : gets[j].url = ClaimedUrl(opts, photos[j])

\* ------------------------------------------------------------ C9

\* C9: with a cached token whose expiry is after the time read, Token() makes
\* no network call, returns the cached token and leaves the cache as it was.
C9_CachedTokenReturned ==
    /\ [][(pc = "Token" /\ AccessToken # NilPtr
             /\ Deref(AccessToken).ExpiresAt > now')
           => /\ pc' = tokRet
              /\ tokRes' = [token |-> AccessToken, err |-> Nil]
              /\ AccessToken' = AccessToken
              /\ log' = log]_vars
    /\ []((op = "Token" /\ pc = "idle" /\ log = <<>>)
            => (ret.err = Nil /\ ret.val = AccessToken /\ ret.val # NilPtr))

\* Token() is about to return a cached token that expires later, having asked
\* the network nothing.
C9_Witness ==
    /\ op = "Token" /\ pc = "Token_return"
    /\ log = <<>>
    /\ AccessToken # NilPtr
    /\ tokRes = [token |-> AccessToken, err |-> Nil]
    /\ Deref(AccessToken).ExpiresAt > now

\* ------------------------------------------------------------ C10

IsTokenPost(e) == e.ev = "req" /\ e.method = "POST" /\ e.url = tokenUrl
TokenPosts(l) == SelectSeq(l, IsTokenPost)

IsDropped(e) == e.ev = "expired"

ValidTokenResp(r) == r.kind = "json" /\ r.AccessToken # "" /\ r.ExpiresIn > 0

\* C10: with a cached token whose expiry is before the time read, Token()
\* makes exactly one token exchange; when the exchange yields a valid token,
\* the cache holds it afterwards, with the capture time plus the reported
\* seconds as its expiry, and Token() returns it.
C10_ExpiredTokenRefreshed ==
    /\ [][/\ (pc = "Token" /\ AccessToken # NilPtr
                /\ Deref(AccessToken).ExpiresAt < now')
             => /\ pc' = "Token_post"
                /\ AccessToken' = NilPtr
                /\ log' = Append(log, Dropped(Deref(AccessToken)))
          /\ pc = "Token_post"
             => /\ pc' = tokRet
                /\ Len(log') = Len(log) + 2
                /\ IsTokenPost(log'[Len(log) + 1])
                /\ LET r == log'[Len(log')].resp
                   IN  ValidTokenResp(r)
                       => LET token == [AccessToken |-> r.AccessToken,
                                        ExpiresIn |-> r.ExpiresIn,
                                        ExpiresAt |-> now' + r.ExpiresIn]
                          IN  /\ AccessToken' = Ptr(token)
                              /\ tokRes' = [token |-> Ptr(token), err |-> Nil]
         ]_vars
    /\ []((op = "Token" /\ \E i \in 1..Len(log) : IsDropped(log[i]))
            => /\ IsDropped(log[1])
               /\ Len(TokenPosts(log)) = (IF pc = "Token_post" THEN 0 ELSE 1)
               /\ pc = "idle" /\ ret.err = Nil
                  => (ret.val = AccessToken /\ ret.val # NilPtr))

\* Token() found the caller's token expired at time 1, exchanged once, and is
\* about to return the new token, now cached, that expires at time 2.
C10_Witness ==
    /\ op = "Token" /\ pc = "Token_return"
    /\ now = 1
    /\ Len(log) = 3
    /\ log[1] = Dropped([AccessToken |-> "tok0", ExpiresIn |-> 0, ExpiresAt |-> 0])
    /\ IsTokenPost(log[2])
    /\ AccessToken = Ptr([AccessToken |-> "tokA", ExpiresIn |-> 1, ExpiresAt |-> 2])
    /\ tokRes = [token |-> AccessToken, err |-> Nil]

\* ------------------------------------------------------------ C11

IsTokenResp(e) == e.ev = "token"

\* C11: a token-exchange response is accepted only with a non-empty access
\* token and a strictly positive expiry; on any other response that parses
\* (empty access token, zero expiry, negative expiry) Token() fails with the
\* OAuth error read from the body, and the response's token is neither
\* returned nor cached.
C11_OnlyValidTokenAccepted ==
    (op = "Token" /\ pc = "Token_return" /\ log # <<>>
        /\ IsTokenResp(log[Len(log)]) /\ log[Len(log)].resp.kind = "json")
    => IF ValidTokenResp(log[Len(log)].resp)
       THEN tokRes.err = Nil /\ tokRes.token # NilPtr
       ELSE /\ tokRes = [token |-> NilPtr, err |-> ErrGoogleOAuth]
            /\ AccessToken = NilPtr

\* ------------------------------------------------------------ C12

IsSessionResp(e) == e.ev = "session"

NewPickerSessionReturned == op = "NewPickerSession" /\ pc = "idle"

\* C12: NewPickerSession returns a session or an error, never both and never
\* neither; a response with an error payload makes it fail with that error
\* and return no session; a session it returns has the identifier of the
\* response, the polling URI made of that identifier, and the Credentials.
C12_SessionOrError ==
    NewPickerSessionReturned
    => /\ (ret.val # NilPtr) <=> (ret.err = Nil)
       /\ \A i \in 1..Len(log) :
            (IsSessionResp(log[i]) /\ log[i].resp.kind = "error")
            => ret = [op |-> "NewPickerSession", val |-> NilPtr,
                      err |-> ErrGooglePhotos]
       /\ ret.val # NilPtr
          => /\ log # <<>> /\ IsSessionResp(log[Len(log)])
             /\ log[Len(log)].resp.kind = "json"
             /\ Deref(ret.val).ID = log[Len(log)].resp.ID
             /\ Deref(ret.val).PollingURI
                    = sessionsUrl \o <<"/">> \o Deref(ret.val).ID
             /\ Deref(ret.val).Credentials = "c"

\* The provider answered the creation of a session with an error payload.
C12_Witness ==
    /\ NewPickerSessionReturned
    /\ Len(log) = 2
    /\ IsSessionResp(log[2]) /\ log[2].resp.kind = "error"
    /\ ret.val = NilPtr /\ ret.err = ErrGooglePhotos

\* ------------------------------------------------------------ C13

PageError(e) == IsPage(e) /\ e.resp.kind = "error"

\* C13: a listing page with an error payload ends the listing: Poll returns
\* that error and no items, those of the pages before included, and no page
\* is asked for after it.
C13_PageErrorDiscardsAll ==
    op = "Poll"
    => \A i \in 1..Len(log) :
         PageError(log[i])
         => /\ i = Len(log)
            /\ pc = "idle"
            /\ ret = [op |-> "Poll", val |-> NilPtr, err |-> ErrGooglePhotos]

\* The first page brought two items and named a next page; the second page
\* brought an error payload.
C13_Witness ==
    /\ PollReturned
    /\ Len(Pages(log)) = 2
    /\ Pages(log)[1].resp.kind = "json"
    /\ Pages(log)[1].resp.Items = <<Item2, Item1>>
    /\ PageError(Pages(log)[2])
    /\ photos = <<Item2, Item1>>
    /\ ret.val = NilPtr /\ ret.err = ErrGooglePhotos

\* ------------------------------------------------------------ C14

\* A status fetch that failed: the GET had no answer, or its answer was no
\* session, or it carried an error payload.
StatusFailure(e) == IsStatus(e) /\ e.resp.kind # "json"

\* A token exchange that gave Token() no token.
TokenFailure(e) ==
    /\ IsTokenResp(e)
    /\ e.resp.kind = "json" => InvalidToken(e.resp)

NoneComplete(l) == \A k \in 1..Len(l) : IsStatus(l[k]) => ~Complete(l[k])

\* C14: a status fetch that fails is the end of Poll: whether Token() failed,
\* the GET had no answer or the answer carried an error payload, Poll returns
\* that failure, asks for no status and no page after it, and the session's
\* completion flag is what it was.
C14_StatusFailureTerminal ==
    /\ [](op = "Poll"
          => /\ \A i \in 1..Len(log) :
                  StatusFailure(log[i])
                  => /\ i = Len(log)
                     /\ pc = "idle"
                     /\ ret = [op |-> "Poll", val |-> NilPtr,
                               err |-> ErrOf(log[i].resp.kind)]
             /\ \A i \in 1..Len(log) :
                  (TokenFailure(log[i]) /\ NoneComplete(log))
                  => /\ i = Len(log)
                     /\ pc \in {"Poll_get", "idle"}
                     /\ tokRes.token = NilPtr /\ tokRes.err # Nil
                     /\ pc = "idle"
                        => ret = [op |-> "Poll", val |-> NilPtr,
                                  err |-> tokRes.err])
    /\ [][(op = "Poll" /\ NoneComplete(log')) => sesh' = sesh]_vars

\* The second status fetch of a Poll on a session not yet picked from was
\* answered with an error payload.
C14_Witness ==
    /\ PollReturned
    /\ Len(Statuses(log)) = 2
    /\ Incomplete(Statuses(log)[1])
    /\ Statuses(log)[2].resp.kind = "error"
    /\ ret.err = ErrGooglePhotos
    /\ ~Deref(sesh).MediaItemsSet
    /\ ListRequests(log) = <<>>

\* ------------------------------------------------------------ C15

IsCtxCheck(e) == e.ev = "ctx"

\* Why Poll may return: a status reported picking done, a callback answered
\* false, a check found the context cancelled, or a fetch failed.
Completed(l) == \E i \in 1..Len(l) : IsStatus(l[i]) /\ Complete(l[i])
CallbackAborted(l) == \E i \in 1..Len(l) : IsCallback(l[i]) /\ ~l[i].res
CancellationSeen(l) == \E i \in 1..Len(l) : IsCtxCheck(l[i]) /\ l[i].err # Nil
FetchFailed(l) ==
    \E i \in 1..Len(l) : StatusFailure(l[i]) \/ TokenFailure(l[i])

\* C15: Poll does not end on a count of turns or on time gone by: after a
\* status that reports picking incomplete the loop goes round again, however
\* many came before, and when Poll has returned, a status had reported picking
\* done, or a callback had answered false, or the context was found cancelled,
\* or a fetch had failed.
C15_NoSelfTermination ==
    /\ [](PollReturned
          => \/ Completed(log)
             \/ CallbackAborted(log) /\ ret.err = ErrPollingCallbackFalse
             \/ CancellationSeen(log) /\ ret.err = ErrCanceled
             \/ FetchFailed(log) /\ ret.err # Nil)
    /\ [][(op = "Poll" /\ pc = "Poll_get" /\ log' # log
             /\ Incomplete(log'[Len(log')]))
          => (pc' = "Poll_loop" /\ cbIdx' = 1 /\ ret' = ret)]_vars

\* Two statuses reported picking incomplete, time has gone by, and Poll is
\* in the callbacks of its third turn.
C15_Witness ==
    /\ op = "Poll" /\ pc = "Poll_loop"
    /\ Len(Statuses(log)) = 2
    /\ \A i \in 1..2 : Incomplete(Statuses(log)[i])
    /\ ~CallbackAborted(log) /\ ~cancelled
    /\ callbacks = 2 /\ cbIdx = 2
    /\ Len(Callbacks(log)) = 5
    /\ now = 1

\* ------------------------------------------------------------ C16

\* The storage key as the claim has it: <prefix>/<item id>, followed by the
\* extension of the filename when AddExtension is set and there is one. The
\* extension is read both ways, with its dot (as filepath.Ext gives it) and
\* without.
ClaimedKeys(o, item) ==
    LET key == o.PhotosPrefix \o <<"/">> \o item.ID
        extension == Ext(item.Media.Filename)
    IN  IF o.AddExtension /\ extension # <<>>
        THEN {key \o extension, key \o Tail(extension)}
        ELSE {key}

\* C16: every item is stored at <prefix>/<item id>, followed by the extension
\* of its filename when AddExtension is set and the filename has one, whatever
\* the prefix.
C16_StorageKeyShape ==
    LET puts == ItemPuts(log)
    IN  op = "UploadToS3"
        => \A j \in 1..Len(puts) : puts[j].key \in ClaimedKeys(opts, photos[j])

\* ------------------------------------------------------------ C17

\* The objects the bucket holds for an item: those at the keys where the call
\* wrote the item.
ObjectsOf(item) ==
    LET puts == ItemPuts(log)
    IN  { k \in DOMAIN store :
            \E j \in 1..Len(puts) :
                photos[j] = item /\ puts[j].err = Nil /\ puts[j].key = k }

\* No write at the key of the j-th write succeeded after it.
LastWrite(puts, j) ==
    \A k \in (j + 1)..Len(puts) :
        ~(puts[k].key = puts[j].key /\ puts[k].err = Nil)

\* C17: an item stored twice with the same options is written twice at the
\* same key, and the bucket then holds one object for it, with the content of
\* the second write.
C17_OverwriteIdempotent ==
    LET puts == ItemPuts(log)
    IN  op = "UploadToS3"
        => \A j, k \in 1..Len(puts) :
             (j < k /\ photos[j] = photos[k]
                /\ puts[j].err = Nil /\ puts[k].err = Nil)
             => /\ puts[j].key = puts[k].key
                /\ ObjectsOf(photos[k]) = {puts[k].key}
                /\ LastWrite(puts, k) => store[puts[k].key] = puts[k].obj

\* Item1 was stored twice in one call, with other bytes the second time.
C17_Witness ==
    /\ op = "UploadToS3" /\ pc = "idle" /\ ret.err = Nil
    /\ photos = <<Item1, Item1>>
    /\ ItemPuts(log)[1].obj.Body = "bytes1"
    /\ ItemPuts(log)[2].obj.Body = "bytes2"
    /\ ItemPuts(log)[1].key = ItemPuts(log)[2].key
    /\ store[ItemPuts(log)[2].key].Body = "bytes2"

\* ------------------------------------------------------------ C18

UploadSucceeded == op = "UploadToS3" /\ pc = "idle" /\ ret.err = Nil

\* The bucket holds nothing but what the call wrote, as it does when the call
\* began with an empty bucket.
OnlyOwnObjects ==
    DOMAIN store = { log[i].key : i \in { k \in 1..Len(log) : IsPut(log[k]) } }

DistinctIDs(ps) ==
    \A j, k \in 1..Len(ps) : j # k => ps[j].ID # ps[k].ID

\* No two items share a storage key, and none has the key of the manifest.
DistinctKeys(o, ps) ==
    /\ \A j, k \in 1..Len(ps) :
         j # k => StorageKey(o, ps[j]) # StorageKey(o, ps[k])
    /\ \A j \in 1..Len(ps) : StorageKey(o, ps[j]) # o.PhotosJSONKey

ManifestRoundTrip ==
    /\ Cardinality(DOMAIN store) = Len(photos) + 1
    /\ Cardinality(DOMAIN store \ {opts.PhotosJSONKey}) = Len(photos)
    /\ PhotoJSON(opts, store) = [val |-> Ptr(photos), err |-> Nil]

\* C18 as stated: after UploadToS3 of k items with pairwise distinct
\* identifiers into an empty bucket succeeded, the bucket holds k item objects
\* and one manifest, and PhotoJSON with the same options gives back the items
\* uploaded, in their order.
C18_RoundTripDistinctIDs ==
    (UploadSucceeded /\ OnlyOwnObjects /\ DistinctIDs(photos))
    => ManifestRoundTrip

\* C18 amended: the same, for k items whose storage keys under the options
\* are pairwise distinct and are not the key of the manifest.
C18_RoundTripDistinctKeys ==
    (UploadSucceeded /\ OnlyOwnObjects /\ DistinctKeys(opts, photos))
    => ManifestRoundTrip

\* Two items were uploaded with their extensions into an empty bucket, which
\* now holds three objects, and the manifest reads back as the two items.
C18_Witness ==
    /\ UploadSucceeded /\ OnlyOwnObjects
    /\ photos = <<Item1, Item2>>
    /\ opts.AddExtension
    /\ DistinctKeys(opts, photos)
    /\ Cardinality(DOMAIN store) = 3
    /\ PhotoJSON(opts, store).val = Ptr(<<Item1, Item2>>)

\* ------------------------------------------------------------ C19

\* C19: all through Poll the session keeps its identifier, its Credentials and
\* its polling URI, which is the one made of the identifier; Poll changes
\* nothing of the session but the completion flag, and sets it only in the
\* step that read a status reporting picking done.
C19_SessionStable ==
    /\ [](op = "Poll"
          => /\ sesh # NilPtr
             /\ Deref(sesh).PollingURI = sessionsUrl \o <<"/">> \o Deref(sesh).ID)
    /\ [][op = "Poll"
          => \/ sesh' = sesh
             \/ /\ Deref(sesh').ID = Deref(sesh).ID
                /\ Deref(sesh').PollingURI = Deref(sesh).PollingURI
                /\ Deref(sesh').Credentials = Deref(sesh).Credentials
                /\ Deref(sesh').MediaItemsSet
                /\ Len(log') > Len(log)
                /\ IsStatus(log'[Len(log')]) /\ Complete(log'[Len(log')])
         ]_vars

\* Poll, on session s2 with the flag not set, read an incomplete and then a
\* complete status, set the flag and is in its last round of callbacks.
C19_Witness ==
    /\ op = "Poll" /\ pc = "Poll_final"
    /\ Len(Statuses(log)) = 2
    /\ Incomplete(Statuses(log)[1]) /\ Complete(Statuses(log)[2])
    /\ Len(Callbacks(log)) > 0 /\ ~Callbacks(log)[1].set
    /\ sesh = Ptr([ID |-> <<"s2">>,
                   PollingURI |-> sessionsUrl \o <<"/", "s2">>,
                   MediaItemsSet |-> TRUE, Credentials |-> "c"])

\* ------------------------------------------------------------ C20

\* Where in the log the status that reported picking done is (0: nowhere).
CompleteAt(l) ==
    IF Completed(l)
    THEN CHOOSE i \in 1..Len(l) : IsStatus(l[i]) /\ Complete(l[i])
    ELSE 0

\* The places in the log where callback i was invoked.
InvocationsOf(i, l) == { p \in 1..Len(l) : IsCallback(l[p]) /\ l[p].i = i }

\* The round after completion has run through.
FinalRoundDone(l) ==
    /\ Completed(l)
    /\ ~CallbackAborted(l)
    /\ Len(Callbacks(SubSeq(l, CompleteAt(l) + 1, Len(l)))) = callbacks

\* C20: a round invokes the callbacks in the order supplied, one right after
\* the other; a round comes right before the check of the context that
\* precedes the sleep and the status fetch of its turn; after the status that
\* reports picking done one more round runs, with the flag set, before any
\* page is asked for. So with N incomplete statuses and then a complete one,
\* and callbacks that all answer true, each callback is invoked N+2 times,
\* and on a session whose flag was not set on entry it sees the flag set in
\* the last of them only.
C20_CallbackRounds ==
    op = "Poll"
    => /\ \A p \in 1..Len(log) :
            IsCallback(log[p])
            => /\ log[p].i \in 1..callbacks
               /\ log[p].i > 1
                  => /\ p > 1
                     /\ IsCallback(log[p - 1])
                     /\ log[p - 1].i = log[p].i - 1
               /\ (log[p].i = 1 /\ p > 1) => IsStatus(log[p - 1])
               /\ (log[p].i < callbacks /\ log[p].res /\ p < Len(log))
                  => IsCallback(log[p + 1])
       /\ \A p \in 1..Len(log) :
            (log[p] = Sleep /\ callbacks > 0)
            => /\ p > 2
               /\ IsCtxCheck(log[p - 1])
               /\ IsCallback(log[p - 2]) /\ log[p - 2].i = callbacks
       /\ \A p \in 1..Len(log) :
            IsListReq(log[p])
            => /\ FinalRoundDone(SubSeq(log, 1, p - 1))
               /\ \A q \in (CompleteAt(log) + 1)..(CompleteAt(log) + callbacks) :
                    q < p /\ IsCallback(log[q]) /\ log[q].set
       /\ FinalRoundDone(log)
          => \A i \in 1..callbacks :
               /\ Cardinality(InvocationsOf(i, log))
                    = Len(SelectSeq(Statuses(log), Incomplete)) + 2
               /\ ~Callbacks(log)[1].set
                  => \A p \in InvocationsOf(i, log) :
                       log[p].set <=> p > CompleteAt(log)

\* Two callbacks, two incomplete statuses and then a complete one, on a
\* session whose flag was not set: eight invocations, the last two with the
\* flag set, and then the first page was asked for.
C20_Witness ==
    /\ op = "Poll"
    /\ callbacks = 2
    /\ Len(Statuses(log)) = 3
    /\ Incomplete(Statuses(log)[1]) /\ Incomplete(Statuses(log)[2])
    /\ Complete(Statuses(log)[3])
    /\ Len(Callbacks(log)) = 8
    /\ ~Callbacks(log)[6].set /\ Callbacks(log)[7].set /\ Callbacks(log)[8].set
    /\ Len(ListRequests(log)) = 1

\* ------------------------------------------------------------ C21

\* No check of the context has found it cancelled.
NoCancellationSeen(l) == ~CancellationSeen(l)

\* C21: the context is looked at before and after the sleep and nowhere else.
\* Poll returns the cancellation error only from one of these two checks; a
\* context cancelled after the check that follows the sleep does not keep the
\* status fetch of that turn from being made, and when a status has reported
\* picking done, Poll runs the last callbacks and the listing and returns
\* what the listing returns, never the cancellation error.
C21_CancellationOnlyAtChecks ==
    /\ [](op = "Poll"
          => /\ (pc = "idle" /\ ret.err = ErrCanceled)
                => /\ log # <<>>
                   /\ log[Len(log)] = CtxCheck(ErrCanceled)
                   /\ ~Completed(log)
             /\ (pc = "idle" /\ cancelled /\ Completed(log)
                   /\ ~CallbackAborted(log))
                => /\ ret.err # ErrCanceled
                   /\ ret.val = ListingResult(log).val
                   /\ ret.err = ListingResult(log).err)
    /\ [][(op = "Poll" /\ pc = "Poll_get" /\ cancelled /\ tokRes.err = Nil)
          => /\ Len(log') = Len(log) + 2
             /\ IsStatusGet(log'[Len(log) + 1])
             /\ IsStatus(log'[Len(log')])]_vars

\* The context was cancelled after the check that followed the sleep; the
\* status fetch was made all the same and reported picking done, the last
\* callbacks ran and two pages were listed: Poll returned the three items.
C21_Witness ==
    /\ PollReturned
    /\ cancelled
    /\ NoCancellationSeen(log)
    /\ Len(Statuses(log)) = 1 /\ Complete(Statuses(log)[1])
    /\ callbacks = 2 /\ Len(Callbacks(log)) = 4
    /\ Len(Pages(log)) = 2
    /\ ret = [op |-> "Poll", val |-> Ptr(<<Item2, Item1, Item1>>), err |-> Nil]

\* ------------------------------------------------------------ C22

\* C22: the cached token is returned only when its expiry is strictly after
\* the time read at the call; when the expiry is that time or before it, the
\* cached token is not returned and a token exchange is made.
C22_StrictlyUnexpired ==
    [][(pc = "Token" /\ AccessToken # NilPtr)
       => IF Deref(AccessToken).ExpiresAt > now'
          THEN /\ pc' = tokRet
               /\ tokRes' = [token |-> AccessToken, err |-> Nil]
          ELSE /\ pc' = "Token_post"
               /\ AccessToken' = NilPtr]_vars

\* ------------------------------------------------------------ C24

IsMedia(e) == e.ev = "media"

\* A media GET that was answered, but not with a 2xx status.
DownloadRefused(e) ==
    /\ IsMedia(e)
    /\ e.resp.kind = "http"
    /\ e.resp.StatusCode \notin 200..299

\* C24: a media GET answered with a status that is no success counts as a
\* failed download: nothing is written for the item, the call fails, and the
\* manifest is not written.
C24_OnlySuccessfulBodiesStored ==
    op = "UploadToS3"
    => \A i \in 1..Len(log) :
         DownloadRefused(log[i])
         => /\ i = Len(log)
            /\ pc = "idle"
            /\ ret.err # Nil

\* ------------------------------------------------------------ C23

IsCalled(e) == e.ev = "call"

\* Where in the log the call of name began (0: nowhere).
CalledAt(name, l) ==
    IF \E i \in 1..Len(l) : l[i] = Called(name)
    THEN CHOOSE i \in 1..Len(l) : l[i] = Called(name)
    ELSE 0

\* C23: NewPickerSession, Poll and UploadToS3 on one Credentials have one
\* token cache. A token exchange is made only by a Token() that found the
\* cache empty or its token expired; a Token() that finds a cached token not
\* yet expired returns it, whichever call had put it there, and exchanges
\* nothing; and the requests of a call bear the token that is in the cache.
C23_SharedTokenCache ==
    /\ [][/\ Len(TokenPosts(log')) > Len(TokenPosts(log))
             => (pc = "Token_post" /\ AccessToken = NilPtr)
          /\ pc' = "Token_post"
             => /\ pc = "Token"
                /\ \/ AccessToken = NilPtr
                   \/ Deref(AccessToken).ExpiresAt < now'
          /\ (pc = "Token" /\ AccessToken # NilPtr
                /\ Deref(AccessToken).ExpiresAt > now')
             => /\ log' = log
                /\ AccessToken' = AccessToken
                /\ tokRes' = [token |-> AccessToken, err |-> Nil]
         ]_vars
    /\ []((pc \in {"NewPickerSession_post", "Poll_get", "list_start",
                   "list_loop", "Upload_start", "Upload_loop"}
             /\ tokRes.err = Nil)
          => tokRes.token = AccessToken /\ AccessToken # NilPtr)
    /\ [](\A i \in 1..Len(log) :
            (IsMediaGet(log[i]) /\ op = "UploadToS3")
            => log[i].token = Deref(AccessToken).AccessToken)

\* NewPickerSession went with the token the caller had supplied; it was found
\* expired during Poll, which exchanged for tokA; UploadToS3 exchanged nothing
\* and asked for the media with tokA.
C23_Witness ==
    LET p == CalledAt("Poll", log)
        u == CalledAt("UploadToS3", log)
    IN  /\ op = "UploadToS3" /\ pc = "idle" /\ ret.err = Nil
        /\ p > 0 /\ u > p
        /\ Len(TokenPosts(log)) = 1
        /\ \E i \in (p + 1)..(u - 1) : IsTokenPost(log[i])
        /\ \E i \in (u + 1)..Len(log) :
                IsMediaGet(log[i]) /\ log[i].token = "tokA"
        /\ Deref(AccessToken).AccessToken = "tokA"
        /\ Deref(AccessToken).ExpiresAt > now

====
